---- MODULE Spec2Model ----
(***************************************************************************)
(* A model of fabtools/openvz/contextmanager.py: the guest() context       *)
(* manager that monkey patches fabric.operations._run_command, the         *)
(* replacement primitive run_guest_command, the administrative execution   *)
(* path _run_host_command and the inner shell wrap _shell_wrap_inner.      *)
(*                                                                         *)
(* Strings are sequences of tokens.  Every character the escape pass       *)
(* looks at (double quote, dollar, backquote) and the backslash it inserts *)
(* is a token of its own; Flat turns a token sequence into the string it   *)
(* stands for, and strings are compared through Flat.                      *)
(***************************************************************************)
EXTENDS Integers, Sequences, FiniteSets, TLC

VARIABLES
    run_command,   \* fabric.operations._run_command: 0 = fabric's own, k = closure k
    closures,      \* the run_guest_command closures created so far, by id
    stack,         \* the guest() generators suspended at their yield, innermost last
    exc,           \* an exception is propagating
    lastExit,      \* observation: the scope exit that has just happened
    env,           \* fabric.state.env
    call,          \* the run-command call in progress, or the last one finished
    t_pc,          \* two-thread use: each thread's position in guest()
    t_orig,        \* two-thread use: each thread's local _orig_run_command
    lastRestore,   \* two-thread use: the thread whose restore ran last
    w              \* the wrap routines applied to drawn inputs

vars == <<run_command, closures, stack, exc, lastExit, env, call,
          t_pc, t_orig, lastRestore, w>>

scopeVars == <<run_command, closures, stack, exc, lastExit, env, call>>
threadVars == <<t_pc, t_orig, lastRestore>>

(***************************************************************************)
(* Bounds.                                                                 *)
(***************************************************************************)
MaxScopes == 2     \* guest() entries in one behaviour
MaxStatus == 1     \* remote exit statuses are 0..MaxStatus
NThreads == 2      \* threads of the two-thread specification

(***************************************************************************)
(* Strings.                                                                *)
(***************************************************************************)
DQ == "\""
BS == "\\"
BQ == "<backquote>"   \* stands for the backquote character (no string literal holds it)
PromptSlot == "%(sudo_prompt)s"

RECURSIVE Flat(_)
Flat(s) == IF s = <<>> THEN "" ELSE Head(s) \o Flat(Tail(s))

Range(s) == {s[i] : i \in 1..Len(s)}

IsPrefix(p, s) == Len(p) <= Len(s) /\ SubSeq(s, 1, Len(p)) = p

None == [none |-> TRUE]
Some(x) == [none |-> FALSE, v |-> x]

\* Python truthiness of an optional string.
Truthy(u) == ~u.none /\ u.v # ""

(***************************************************************************)
(* The inputs drawn.                                                       *)
(***************************************************************************)
Commands == { <<"echo hi">>, <<"echo ", DQ, "$", "HOME", DQ>> }
WrapCommands == Commands \cup { <<"ls ", BQ, "pwd", BQ>> }
Ctids == {"101", "web"}
Users == {None, Some("bob")}
Plumbing == { <<FALSE, TRUE>>, <<TRUE, FALSE>> }   \* <<pty, combine_stderr>>
Statuses == 0..MaxStatus

DefaultShell == <<"/bin/bash -l -c">>
DefaultSudoPrefix == <<"sudo -S -p '", PromptSlot, "' ">>
DefaultSudoPrompt == "sudo password:"

\* <<env.cwd, env.path>>: neither cd() nor path() in effect, or both.
Contexts == { <<"", "">>, <<"/srv", "/opt/bin">> }

Envs == {[shell |-> DefaultShell,
          sudo_prefix |-> DefaultSudoPrefix,
          sudo_prompt |-> DefaultSudoPrompt,
          use_shell |-> u,
          warn_only |-> wo,
          cwd |-> c[1],
          path |-> c[2],
          command_prefixes |-> <<>>] :
            u \in BOOLEAN, wo \in BOOLEAN, c \in Contexts}

(***************************************************************************)
(* fabric.operations helpers the module imports.                           *)
(***************************************************************************)
RECURSIVE _shell_escape(_)
_shell_escape(s) ==
    IF s = <<>> THEN <<>>
    ELSE (IF Head(s) \in {DQ, "$", BQ} THEN <<BS, Head(s)>> ELSE <<Head(s)>>)
         \o _shell_escape(Tail(s))

RECURSIVE Interpolate(_, _)
Interpolate(template, value) ==
    IF template = <<>> THEN <<>>
    ELSE <<(IF Head(template) = PromptSlot THEN value ELSE Head(template))>>
         \o Interpolate(Tail(template), value)

_sudo_prefix(e, user) ==
    LET prefix == Interpolate(e.sudo_prefix, e.sudo_prompt)
    IN  IF ~user.none THEN prefix \o <<" -u ", DQ, user.v, DQ, " ">> ELSE prefix

_prefix_env_vars(e, command) ==
    (IF e.path # "" THEN <<"PATH=", "$", "PATH:", DQ, e.path, DQ, " ">> ELSE <<>>)
    \o command

RECURSIVE Join(_)
Join(prefixes) ==
    IF prefixes = <<>> THEN <<>> ELSE Head(prefixes) \o <<" && ">> \o Join(Tail(prefixes))

_prefix_commands(e, command) ==
    LET prefixes == (IF e.cwd # "" THEN << <<"cd ", e.cwd>> >> ELSE <<>>)
                    \o e.command_prefixes
    IN  Join(prefixes) \o command

_shell_wrap(e, command, shell, sudo_prefix) ==
    LET sh == IF shell /\ ~e.use_shell THEN FALSE ELSE shell
        sp == IF sudo_prefix.none THEN <<>> ELSE sudo_prefix.v \o <<" ">>
    IN  IF sh THEN sp \o e.shell \o <<" ">> \o <<DQ>> \o _shell_escape(command) \o <<DQ>>
        ELSE sp \o command

(***************************************************************************)
(* _shell_wrap_inner.                                                      *)
(***************************************************************************)
ShellWrapInnerEscaping(e, command, shell, sudo_prefix) ==
    _shell_wrap(e, command, shell, sudo_prefix)

_shell_wrap_inner(e, command, shell, sudo_prefix) ==
    LET sh == IF shell /\ ~e.use_shell THEN FALSE ELSE shell
        sp == IF sudo_prefix.none THEN <<>> ELSE sudo_prefix.v \o <<" ">>
    IN  IF sh THEN sp \o e.shell \o <<" ">> \o <<DQ>> \o command \o <<DQ>>
        ELSE sp \o command

(***************************************************************************)
(* run_guest_command, piece by piece.                                      *)
(***************************************************************************)
GuestShell == <<"/bin/bash -c">>
GuestSudoPrefix == <<"sudo -S -p ", DQ, PromptSlot, DQ, " ">>

OverrideEnv(e) == [e EXCEPT !.shell = GuestShell, !.sudo_prefix = GuestSudoPrefix]

RestoreEnvSkipped(e, orig_shell, orig_sudo_prefix) == e

RestoreEnv(e, orig_shell, orig_sudo_prefix) ==
    [e EXCEPT !.shell = orig_shell, !.sudo_prefix = orig_sudo_prefix]

GuestCommand(e, command, sudo, user) ==
    _shell_wrap_inner(e, _prefix_commands(e, _prefix_env_vars(e, command)), TRUE,
                      IF sudo /\ Truthy(user) THEN Some(_sudo_prefix(e, user)) ELSE None)

HostCommandUnquoted(name_or_ctid, guest_command) ==
    <<"vzctl exec2 ", name_or_ctid, " ">> \o guest_command

HostCommand(name_or_ctid, guest_command) ==
    <<"vzctl exec2 ", name_or_ctid, " '">> \o guest_command \o <<"'">>

(***************************************************************************)
(* _run_host_command, piece by piece.                                      *)
(***************************************************************************)
WrappedCommandNoSudo(e, command, shell) == _shell_wrap(e, command, shell, None)

WrappedCommand(e, command, shell) ==
    _shell_wrap(e, command, shell, Some(_sudo_prefix(e, None)))

ErrorMsgShort(e, status, given_command, wrapped_command) ==
    <<"sudo", "() received nonzero return code ", ToString(status), " while executing">>
    \o <<" '">> \o given_command \o <<"'!">>

ErrorMsg(e, status, given_command, wrapped_command) ==
    <<"sudo", "() received nonzero return code ", ToString(status), " while executing">>
    \o (IF e.warn_only THEN <<" '">> \o given_command \o <<"'!">>
        ELSE <<"!\n\nRequested: ">> \o given_command \o <<"\nExecuted: ">>
             \o wrapped_command)

\* error(message=msg, ...) is called on this condition.
ErrorPath(status) == status # 0

\* fabric.utils.error: warn and return under env.warn_only, abort (raise) otherwise.
ErrorRaises(e) == ~e.warn_only

ResultSucceededStuck(stdout, stderr, status) ==
    [stdout |-> stdout, stderr |-> stderr, failed |-> status # 0,
     return_code |-> status, succeeded |-> TRUE]

Result(stdout, stderr, status) ==
    LET failed == IF status # 0 THEN TRUE ELSE FALSE
    IN  [stdout |-> stdout, stderr |-> stderr, failed |-> failed,
         return_code |-> status, succeeded |-> ~failed]

(***************************************************************************)
(* guest(): the patch and the unpatch.                                     *)
(***************************************************************************)
SaveOrig(current) == current

PatchSkipped(current, k) == current

Patch(current, k) == k

UnpatchSkipped(current, saved) == current

Unpatch(current, saved) == saved

(***************************************************************************)
(* State.                                                                  *)
(***************************************************************************)
NoExit == [how |-> "none", id |-> 0, before |-> 0, inner |-> 0]

NoResult == [stdout |-> "", stderr |-> "", failed |-> FALSE,
             return_code |-> -1, succeeded |-> FALSE]

NoExec == [command |-> <<>>, pty |-> FALSE, combine_stderr |-> FALSE]

IdleCall ==
    [pc |-> "idle", command |-> <<>>, shell |-> FALSE, pty |-> FALSE,
     combine_stderr |-> FALSE, sudo |-> FALSE, user |-> None,
     served_by |-> 0, in_scope |-> FALSE, name_or_ctid |-> "",
     env0 |-> [shell |-> <<>>, sudo_prefix |-> <<>>],
     orig_shell |-> <<>>, orig_sudo_prefix |-> <<>>,
     build_env |-> [shell |-> <<>>, sudo_prefix |-> <<>>],
     guest_command |-> <<>>, host_command |-> <<>>, wrapped_command |-> <<>>,
     exec |-> NoExec, exec_env |-> [shell |-> <<>>, sudo_prefix |-> <<>>],
     n_exec |-> 0, status |-> -1, n_error |-> 0, message |-> <<>>,
     result |-> NoResult]

NoWrap == [pc |-> "none"]

Idle == call.pc = "idle"

ScopeInit ==
    /\ run_command = 0
    /\ closures = <<>>
    /\ stack = <<>>
    /\ exc = FALSE
    /\ lastExit = NoExit
    /\ env \in Envs
    /\ call = IdleCall

ThreadsIdle ==
    /\ t_pc = [t \in 1..NThreads |-> "off"]
    /\ t_orig = [t \in 1..NThreads |-> 0]
    /\ lastRestore = 0

Init == ScopeInit /\ ThreadsIdle /\ w = NoWrap

(***************************************************************************)
(* guest(name_or_ctid) up to its yield.                                    *)
(***************************************************************************)
Enter(name_or_ctid) ==
    /\ ~exc /\ Idle
    /\ Len(closures) < MaxScopes
    /\ LET k == Len(closures) + 1 IN
        /\ closures' = Append(closures,
              [name_or_ctid |-> name_or_ctid,
               _orig_run_command |-> SaveOrig(run_command)])
        /\ run_command' = Patch(run_command, k)
        /\ stack' = Append(stack, [id |-> k, before |-> run_command, inner |-> 0])
    /\ lastExit' = NoExit
    /\ call' = IdleCall
    /\ UNCHANGED <<exc, env, threadVars, w>>

PopTo(inner_id) ==
    LET rest == SubSeq(stack, 1, Len(stack) - 1)
    IN  IF rest = <<>> THEN rest
        ELSE [rest EXCEPT ![Len(rest)].inner = inner_id]

\* The block ends normally: the generator resumes after its yield.
ExitNormal ==
    /\ ~exc /\ Idle
    /\ stack # <<>>
    /\ LET top == stack[Len(stack)] IN
        /\ run_command' = Unpatch(run_command, closures[top.id]._orig_run_command)
        /\ lastExit' = [how |-> "normal", id |-> top.id, before |-> top.before,
                        inner |-> top.inner]
        /\ stack' = PopTo(top.id)
    /\ call' = IdleCall
    /\ UNCHANGED <<closures, exc, env, threadVars, w>>

\* An exception leaves the block: it is thrown into the generator at its yield,
\* which has no handler, so the statement after the yield does not run.
ExitError ==
    /\ exc
    /\ stack # <<>>
    /\ LET top == stack[Len(stack)] IN
        /\ lastExit' = [how |-> "error", id |-> top.id, before |-> top.before,
                        inner |-> top.inner]
        /\ stack' = PopTo(top.id)
    /\ call' = IdleCall
    /\ UNCHANGED <<run_command, closures, exc, env, threadVars, w>>

\* The block itself raises.
RaiseInBlock ==
    /\ ~exc /\ Idle
    /\ stack # <<>>
    /\ exc' = TRUE
    /\ lastExit' = NoExit
    /\ call' = IdleCall
    /\ UNCHANGED <<run_command, closures, stack, env, threadVars, w>>

\* A try/except of the caller handles the exception.
Catch ==
    /\ exc
    /\ exc' = FALSE
    /\ call' = IdleCall
    /\ UNCHANGED <<run_command, closures, stack, lastExit, env, threadVars, w>>

\* The call has returned and its caller goes on.
CallReturn ==
    /\ call.pc \in {"returned", "orig"}
    /\ call' = IdleCall
    /\ UNCHANGED <<run_command, closures, stack, exc, lastExit, env, threadVars, w>>

(***************************************************************************)
(* A call of the run-command primitive.                                    *)
(***************************************************************************)
\* The installed primitive is fabric's own.
OrigCall(command) ==
    /\ ~exc /\ Idle
    /\ run_command = 0
    /\ call' = [IdleCall EXCEPT !.pc = "orig", !.command = command,
                                !.served_by = 0, !.in_scope = (stack # <<>>)]
    /\ lastExit' = NoExit
    /\ UNCHANGED <<run_command, closures, stack, exc, env, threadVars, w>>

\* run_guest_command: override the two settings and build the commands.
CallBuild(command, shell, pl, sudo, user) ==
    /\ ~exc /\ Idle
    /\ run_command # 0
    /\ LET k == run_command
           e1 == OverrideEnv(env)
           guest_command == GuestCommand(e1, command, sudo, user)
       IN
        /\ env' = e1
        /\ call' = [IdleCall EXCEPT
              !.pc = "built", !.command = command, !.shell = shell,
              !.pty = pl[1], !.combine_stderr = pl[2], !.sudo = sudo, !.user = user,
              !.served_by = k, !.in_scope = (stack # <<>>),
              !.name_or_ctid = closures[k].name_or_ctid,
              !.env0 = [shell |-> env.shell, sudo_prefix |-> env.sudo_prefix],
              !.orig_shell = env.shell, !.orig_sudo_prefix = env.sudo_prefix,
              !.build_env = [shell |-> e1.shell, sudo_prefix |-> e1.sudo_prefix],
              !.guest_command = guest_command,
              !.host_command = HostCommand(closures[k].name_or_ctid, guest_command)]
    /\ lastExit' = NoExit
    /\ UNCHANGED <<run_command, closures, stack, exc, threadVars, w>>

\* run_guest_command: restore the two settings.
CallRestore ==
    /\ call.pc = "built"
    /\ env' = RestoreEnv(env, call.orig_shell, call.orig_sudo_prefix)
    /\ call' = [call EXCEPT !.pc = "host"]
    /\ UNCHANGED <<run_command, closures, stack, exc, lastExit, threadVars, w>>

\* _run_host_command: wrap the host command and execute it on the channel.
CallExecute(status) ==
    /\ call.pc = "host"
    /\ LET wrapped_command == WrappedCommand(env, call.host_command, call.shell) IN
        call' = [call EXCEPT
            !.pc = "executed",
            !.wrapped_command = wrapped_command,
            !.exec = [command |-> wrapped_command, pty |-> call.pty,
                      combine_stderr |-> call.combine_stderr],
            !.exec_env = [shell |-> env.shell, sudo_prefix |-> env.sudo_prefix],
            !.n_exec = call.n_exec + 1,
            !.status = status]
    /\ UNCHANGED <<run_command, closures, stack, exc, lastExit, env, threadVars, w>>

\* _run_host_command: assemble the result, report a nonzero status.
CallFinish ==
    /\ call.pc = "executed"
    /\ LET erred == ErrorPath(call.status)
           raises == erred /\ ErrorRaises(env)
       IN
        /\ call' = [call EXCEPT
              !.pc = IF raises THEN "raised" ELSE "returned",
              !.n_error = IF erred THEN call.n_error + 1 ELSE call.n_error,
              !.message = IF erred
                          THEN ErrorMsg(env, call.status, call.host_command,
                                        call.wrapped_command)
                          ELSE <<>>,
              !.result = IF raises THEN NoResult
                         ELSE Result("out", "err", call.status)]
        /\ exc' = raises
    /\ UNCHANGED <<run_command, closures, stack, lastExit, env, threadVars, w>>

ScopeNext ==
    \/ \E t \in Ctids : Enter(t)
    \/ ExitNormal
    \/ ExitError
    \/ RaiseInBlock
    \/ Catch
    \/ \E c \in Commands : OrigCall(c)
    \/ \E c \in Commands, sh \in BOOLEAN, pl \in Plumbing, su \in BOOLEAN, u \in Users :
          CallBuild(c, sh, pl, su, u)
    \/ CallRestore
    \/ \E s \in Statuses : CallExecute(s)
    \/ CallFinish
    \/ CallReturn

Next == ScopeNext

Spec == Init /\ [][Next]_vars

(***************************************************************************)
(* Two threads, each in a guest scope of its own, with no locking: the     *)
(* statements of guest() that read or write fabric.operations._run_command *)
(* interleave.  Thread t's closure is closure t.                           *)
(***************************************************************************)
Threads == 1..NThreads

DefaultEnv ==
    [shell |-> DefaultShell, sudo_prefix |-> DefaultSudoPrefix,
     sudo_prompt |-> DefaultSudoPrompt, use_shell |-> TRUE, warn_only |-> FALSE,
     cwd |-> "", path |-> "", command_prefixes |-> <<>>]

InitThreads ==
    /\ run_command = 0
    /\ \E c \in [Threads -> Ctids] :
          closures = [t \in Threads |->
                        [name_or_ctid |-> c[t], _orig_run_command |-> 0]]
    /\ stack = <<>>
    /\ exc = FALSE
    /\ lastExit = NoExit
    /\ env = DefaultEnv
    /\ call = IdleCall
    /\ t_pc = [t \in Threads |-> "start"]
    /\ t_orig = [t \in Threads |-> 0]
    /\ lastRestore = 0
    /\ w = NoWrap

\* _orig_run_command = fabric.operations._run_command
T_Save(t) ==
    /\ t_pc[t] = "start"
    /\ t_orig' = [t_orig EXCEPT ![t] = SaveOrig(run_command)]
    /\ closures' = [closures EXCEPT ![t]._orig_run_command = SaveOrig(run_command)]
    /\ t_pc' = [t_pc EXCEPT ![t] = "saved"]
    /\ UNCHANGED <<run_command, stack, exc, lastExit, env, call, lastRestore, w>>

\* fabric.operations._run_command = run_guest_command, then the yield
T_Install(t) ==
    /\ t_pc[t] = "saved"
    /\ run_command' = Patch(run_command, t)
    /\ t_pc' = [t_pc EXCEPT ![t] = "body"]
    /\ UNCHANGED <<closures, stack, exc, lastExit, env, call, t_orig, lastRestore, w>>

\* the block ends normally: fabric.operations._run_command = _orig_run_command
T_Restore(t) ==
    /\ t_pc[t] = "body"
    /\ run_command' = Unpatch(run_command, t_orig[t])
    /\ t_pc' = [t_pc EXCEPT ![t] = "done"]
    /\ lastRestore' = t
    /\ UNCHANGED <<closures, stack, exc, lastExit, env, call, t_orig, w>>

NextThreads ==
    \/ \E t \in Threads : T_Save(t)
    \/ \E t \in Threads : T_Install(t)
    \/ \E t \in Threads : T_Restore(t)

SpecThreads == InitThreads /\ [][NextThreads]_vars

(***************************************************************************)
(* The two wrap routines and the escape pass, applied to drawn inputs.     *)
(***************************************************************************)
WrapEnvs == {[DefaultEnv EXCEPT !.shell = s, !.use_shell = u] :
                s \in {DefaultShell, GuestShell}, u \in BOOLEAN}

WrapSudoPrefixes ==
    {None, Some(_sudo_prefix(DefaultEnv, None)),
     Some(_sudo_prefix(OverrideEnv(DefaultEnv), Some("bob")))}

InitWrap ==
    /\ run_command = 0
    /\ closures = <<>>
    /\ stack = <<>>
    /\ exc = FALSE
    /\ lastExit = NoExit
    /\ env \in WrapEnvs
    /\ call = IdleCall
    /\ ThreadsIdle
    /\ w \in [pc : {"in"}, command : WrapCommands, shell : BOOLEAN,
              sudo_prefix : WrapSudoPrefixes,
              inner : {None}, standard : {None}, escaped : {None}]

WrapInner ==
    /\ w.pc = "in" /\ w.inner.none
    /\ w' = [w EXCEPT !.inner =
                Some(_shell_wrap_inner(env, w.command, w.shell, w.sudo_prefix))]
    /\ UNCHANGED <<scopeVars, threadVars>>

WrapStandard ==
    /\ w.pc = "in" /\ w.standard.none
    /\ w' = [w EXCEPT !.standard =
                Some(_shell_wrap(env, w.command, w.shell, w.sudo_prefix))]
    /\ UNCHANGED <<scopeVars, threadVars>>

\* The escape pass over inner wrap's output.
WrapEscape ==
    /\ w.pc = "in" /\ ~w.inner.none /\ w.escaped.none
    /\ w' = [w EXCEPT !.escaped = Some(_shell_escape(w.inner.v))]
    /\ UNCHANGED <<scopeVars, threadVars>>

NextWrap == WrapInner \/ WrapStandard \/ WrapEscape

SpecWrap == InitWrap /\ [][NextWrap]_vars

(***************************************************************************)
(* Properties.                                                             *)
(***************************************************************************)
Built == call.pc \in {"built", "host", "executed", "returned", "raised"}
Executed == call.pc \in {"executed", "returned", "raised"}
Finished == call.pc \in {"returned", "raised"}

SudoAsUser == call.sudo /\ ~call.user.none

\* The command after path prefixing, then directory prefixing, as a string.
PrefixedStr ==
    (IF env.cwd # "" THEN "cd " \o env.cwd \o " && " ELSE "")
    \o (IF env.path # "" THEN "PATH=$PATH:\"" \o env.path \o "\" " ELSE "")
    \o Flat(call.command)

\* The sudo prefix for the call's user under the forced prompt form, and a space.
UserPrefixStr ==
    IF SudoAsUser
    THEN "sudo -S -p \"" \o env.sudo_prompt \o "\"  -u \"" \o call.user.v \o "\"  "
    ELSE ""

\* The sudo prefix built for no target user under the caller's settings.
RootPrefixStr == "sudo -S -p '" \o DefaultSudoPrompt \o "' "

\* C1: after a guest scope exits, normally or by an error raised inside it, the
\* installed run-command primitive is the one installed just before the scope
\* was entered.
C1_RestoredOnEveryExit ==
    lastExit.how # "none" => run_command = lastExit.before

\* C2 (as claimed): the host command built inside the scope is
\* "vzctl exec2 " + t + " '" + inner(c) + "'", inner(c) always being the prefixed
\* command wrapped as /bin/bash -c "..." with no escaping, after the user's sudo
\* prefix only when sudo is set and a user is given.
C2_HostCommandAlwaysWrapped ==
    Built =>
        Flat(call.host_command) =
            "vzctl exec2 " \o call.name_or_ctid \o " '"
            \o UserPrefixStr \o "/bin/bash -c \"" \o PrefixedStr \o "\""
            \o "'"

\* C2 (amended): the host command is "vzctl exec2 " + t + " '" + inner(c) + "'";
\* inner(c) is the prefixed command wrapped as /bin/bash -c "..." with no escaping
\* when the global use-shell setting is on, and the bare prefixed command when it
\* is off, in both cases after the user's sudo prefix only when sudo is set and a
\* user is given; 'echo hi' in container '101' with no sudo, no prefixes and
\* use-shell on gives vzctl exec2 101 '/bin/bash -c "echo hi"'.
C2_HostCommand ==
    Built =>
        /\ Flat(call.host_command) =
              "vzctl exec2 " \o call.name_or_ctid \o " '"
              \o UserPrefixStr
              \o (IF env.use_shell THEN "/bin/bash -c \"" \o PrefixedStr \o "\""
                  ELSE PrefixedStr)
              \o "'"
        /\ (/\ call.command = <<"echo hi">> /\ call.name_or_ctid = "101"
            /\ ~call.sudo /\ env.path = "" /\ env.cwd = "" /\ env.use_shell)
           => Flat(call.host_command) = "vzctl exec2 101 '/bin/bash -c \"echo hi\"'"

C2_Witness ==
    /\ call.pc = "built"
    /\ SudoAsUser /\ env.use_shell /\ env.cwd # "" /\ env.path # ""
    /\ DQ \in Range(call.command)

\* C3: in every call of the replacement primitive env.shell and env.sudo_prefix,
\* forced to '/bin/bash -c' and the double-quoted prompt form while the commands
\* are built, are back at their values from the start of the call before the host
\* command is executed, during its execution and after the call has ended by
\* return or by error.
C3_SettingsRestoredBeforeExecution ==
    /\ call.pc = "built" =>
          /\ env.shell = <<"/bin/bash -c">>
          /\ Flat(env.sudo_prefix) = "sudo -S -p \"%(sudo_prompt)s\" "
    /\ call.pc \in {"host", "executed", "returned", "raised"} =>
          /\ env.shell = call.env0.shell
          /\ env.sudo_prefix = call.env0.sudo_prefix
    /\ Executed => call.exec_env = call.env0

C3_Witness ==
    /\ call.pc = "raised"
    /\ call.build_env.shell = GuestShell
    /\ call.exec_env.shell = DefaultShell
    /\ env.sudo_prefix = DefaultSudoPrefix

\* C4: every result _run_host_command returns has return_code equal to the remote
\* exit status, failed true exactly when the status is nonzero, and succeeded
\* equal to not failed.
C4_ResultFlags ==
    call.pc = "returned" =>
        /\ call.result.return_code = call.status
        /\ call.result.failed = (call.status # 0)
        /\ call.result.succeeded = ~call.result.failed
        /\ call.status = 0 => (~call.result.failed /\ call.result.succeeded)
        /\ call.status # 0 => (call.result.failed /\ ~call.result.succeeded)

C4_Witness ==
    /\ call.pc = "returned" /\ call.status # 0
    /\ call.result.failed /\ ~call.result.succeeded

\* C5: a nonzero status takes the error path exactly once: under warn-only it
\* reports a message naming the requested command and the call returns a result
\* with failed true; otherwise it raises with a message holding the requested
\* command and the wrapped command executed.  Status 0 never takes the error path.
C5_ErrorPath ==
    Finished =>
        /\ call.n_exec = 1
        /\ call.status = 0 =>
              call.n_error = 0 /\ call.message = <<>> /\ call.pc = "returned"
        /\ call.status # 0 => call.n_error = 1
        /\ (call.status # 0 /\ env.warn_only) =>
              /\ call.pc = "returned" /\ call.result.failed /\ ~exc
              /\ Flat(call.message) =
                    "sudo() received nonzero return code " \o ToString(call.status)
                    \o " while executing '" \o Flat(call.host_command) \o "'!"
        /\ (call.status # 0 /\ ~env.warn_only) =>
              /\ call.pc = "raised" /\ exc
              /\ Flat(call.message) =
                    "sudo() received nonzero return code " \o ToString(call.status)
                    \o " while executing!\n\nRequested: " \o Flat(call.host_command)
                    \o "\nExecuted: " \o Flat(call.exec.command)

C5_Witness ==
    call.pc = "raised" /\ call.status # 0 /\ call.n_error = 1 /\ ~env.warn_only

\* C6: whatever the caller's sudo flag and user, the command that reaches the
\* transport is the host command wrapped with the root sudo prefix (the prefix
\* built for no target user); the sudo flag and user show only in the inner
\* command, which carries a sudo prefix for the user exactly when sudo is set and
\* a user is given.
C6_OuterAlwaysRoot ==
    /\ Executed =>
          Flat(call.exec.command) =
              RootPrefixStr \o " "
              \o (IF call.shell /\ env.use_shell
                  THEN Flat(env.shell) \o " \""
                       \o Flat(_shell_escape(call.host_command)) \o "\""
                  ELSE Flat(call.host_command))
    /\ Built =>
          /\ (" -u " \in Range(call.guest_command)) <=> SudoAsUser
          /\ SudoAsUser =>
                IsPrefix(<<"sudo -S -p ", DQ, env.sudo_prompt, DQ, " ", " -u ",
                           DQ, call.user.v, DQ, " ", " ">>, call.guest_command)
          /\ ~SudoAsUser => ~("sudo -S -p " \in Range(call.guest_command))

C6_Witness ==
    /\ call.pc = "executed" /\ ~call.sudo /\ ~call.user.none
    /\ IsPrefix(<<"sudo -S -p '", DefaultSudoPrompt, "' ", " ">>, call.exec.command)

\* C7: between scope entry and scope exit every call of the run-command
\* primitive is served by the replacement: one transport execution, of the
\* container-exec host command, whose result is the result returned; fabric's
\* original primitive is not invoked while a scope is active.
C7_ServedByReplacement ==
    /\ stack # <<>> => run_command # 0
    /\ (call.in_scope /\ ~Idle) =>
          /\ call.pc # "orig" /\ call.served_by \in 1..Len(closures)
          /\ call.name_or_ctid = closures[call.served_by].name_or_ctid
          /\ call.pc \in {"built", "host"} => call.n_exec = 0
          /\ Executed =>
                /\ call.n_exec = 1
                /\ IsPrefix(<<"vzctl exec2 ", call.name_or_ctid, " '">>,
                            call.host_command)
                /\ call.exec = [command |-> WrappedCommand(env, call.host_command,
                                                           call.shell),
                                pty |-> call.pty,
                                combine_stderr |-> call.combine_stderr]
          /\ call.pc = "returned" =>
                /\ call.result.return_code = call.status
                /\ call.result.stdout = "out" /\ call.result.stderr = "err"

C7_Witness ==
    call.in_scope /\ call.pc = "returned" /\ call.n_exec = 1 /\ Len(stack) = 2

\* C8 (as claimed): when a scope was entered inside another and has exited
\* first, the outer scope's exit reinstates the inner scope's patched primitive.
C8_OuterExitReinstatesInner ==
    (lastExit.how = "normal" /\ lastExit.inner # 0) => run_command = lastExit.inner

\* C8 (amended): when a scope was entered inside another and has exited first,
\* the outer scope's normal exit reinstates the primitive that was installed
\* before the outer scope was entered, not the inner scope's patched primitive.
C8_OuterExitRestoresOwnSave ==
    (lastExit.how = "normal" /\ lastExit.inner # 0) =>
        /\ run_command = lastExit.before
        /\ run_command # lastExit.inner
        /\ run_command # lastExit.id

C8_Witness ==
    /\ lastExit.how = "normal" /\ lastExit.inner # 0
    /\ stack = <<>> /\ run_command = 0

AllDone == \A t \in Threads : t_pc[t] = "done"

\* C9: with two threads each in a guest scope and no locking, once every scope
\* has exited the installed primitive is the one the thread that restored last
\* had saved at its entry, which is another thread's replacement when that
\* thread saved after the other had installed: an interleaving leaves a
\* primitive installed that is not the one from before either scope.
C9_LastRestoreWins ==
    /\ AllDone => run_command = t_orig[lastRestore]
    /\ (AllDone /\ run_command # 0) =>
          /\ run_command \in Threads \ {lastRestore}
          /\ closures[lastRestore]._orig_run_command = run_command

C9_Witness == AllDone /\ run_command # 0

WrapShell == w.shell /\ env.use_shell
WrapPrefixStr == IF w.sudo_prefix.none THEN "" ELSE Flat(w.sudo_prefix.v) \o " "

\* Inner wrap's output: optional sudo prefix and space, shell invocation and
\* space, the command as given in double quotes; with no shell wrap, the
\* command as given after the optional sudo prefix and space.
InnerStructure ==
    (w.pc = "in" /\ ~w.inner.none) =>
        Flat(w.inner.v) =
            WrapPrefixStr
            \o (IF WrapShell THEN Flat(env.shell) \o " \"" \o Flat(w.command) \o "\""
                ELSE Flat(w.command))

\* C10 (as claimed): inner wrap and standard wrap produce the same token
\* structure, inner wrap does not escape the command, returns it unchanged but
\* for the sudo prefix when no shell wrap applies, and the escape pass over inner
\* wrap's output gives exactly standard wrap's output.
C10_EscapedInnerIsStandard ==
    /\ InnerStructure
    /\ (w.pc = "in" /\ ~w.escaped.none /\ ~w.standard.none) =>
          Flat(w.escaped.v) = Flat(w.standard.v)

\* C10 (amended): inner wrap and standard wrap produce the same token structure,
\* inner wrap does not escape the command and returns it unchanged but for the
\* sudo prefix when no shell wrap applies; standard wrap's output is inner wrap's
\* output on the command passed through the escape pass when a shell wrap
\* applies, and is inner wrap's output when none applies.
C10_StandardIsInnerOfEscaped ==
    /\ InnerStructure
    /\ (w.pc = "in" /\ ~w.inner.none /\ ~w.standard.none) =>
          /\ WrapShell =>
                Flat(w.standard.v) =
                    WrapPrefixStr \o Flat(env.shell) \o " \""
                    \o Flat(_shell_escape(w.command)) \o "\""
          /\ ~WrapShell => Flat(w.standard.v) = Flat(w.inner.v)
          /\ (WrapShell /\ Range(w.command) \cap {DQ, "$", BQ} # {}) =>
                Flat(w.standard.v) # Flat(w.inner.v)

C10_Witness ==
    /\ w.pc = "in" /\ ~w.inner.none /\ ~w.standard.none /\ ~w.escaped.none
    /\ WrapShell /\ ~w.sudo_prefix.none
    /\ DQ \in Range(w.command)

====
